---- MODULE Spec2Model ----
(***************************************************************************)
(* Claim (lib/primitives/claim.js): a record wrapping an ownership-proof   *)
(* blob, with a wire codec, a content hash with a cached hex form, cached  *)
(* proof data, fee/weight arithmetic and materialization as a transaction. *)
(*                                                                         *)
(* A Claim object is the record [blob, _hash, _hhash, _data].  Buffers are *)
(* sequences of bytes (0..255), a hex string is a sequence of hex          *)
(* characters, and null is the empty sequence.  Every method is an         *)
(* operator from the object (and its arguments) to an outcome              *)
(*   [threw, value, self]                                                  *)
(* (did it throw, what it returned or threw, the object afterwards); an     *)
(* exception thrown by a call a method makes is thrown by the method.  An  *)
(* action applies a method to the object held in the variable claim.       *)
(***************************************************************************)
EXTENDS Integers, Sequences, FiniteSets, TLC

VARIABLES
  claim,   \* the Claim object: [blob, _hash, _hhash, _data]
  wire,    \* the bytes of the buffer last written
  src,     \* the blob of the sending Claim of the codec round trip (never assigned)
  ret      \* the last call: [op, threw, value, ...]

vars == <<claim, wire, src, ret>>

-----------------------------------------------------------------------------
(* Bounds of the model                                                     *)

MaxNet == 1      \* networks are 0..MaxNet
MaxFill == 2     \* codec round trip: a blob's bytes are i*fill mod 256, fill in 0..MaxFill

Networks == 0..MaxNet

-----------------------------------------------------------------------------
(* Values                                                                  *)

null == <<>>

EMPTY == <<>>

\* the record kept of a call: the method, its arguments, whether it threw,
\* and what it returned or threw
Called(op, args, threw, value) ==
  [op |-> op, args |-> args, threw |-> threw, value |-> value]

\* what a method's call comes to
Return(v, self) == [threw |-> FALSE, value |-> v, self |-> self]
Throw(e, self) == [threw |-> TRUE, value |-> e, self |-> self]

-----------------------------------------------------------------------------
(* bufio: variable-length integers and byte fields.  The 32-bit limit     *)
(* 0xffffffff is written n \div 65536 <= 65535.                             *)

sizeVarint(n) ==
  IF n < 253 THEN 1
  ELSE IF n <= 65535 THEN 3
  ELSE IF n \div 65536 <= 65535 THEN 5
  ELSE 9

RECURSIVE writeUInt(_, _)
\* n as w little-endian bytes
writeUInt(n, w) ==
  IF w = 0 THEN <<>> ELSE <<n % 256>> \o writeUInt(n \div 256, w - 1)

RECURSIVE readUInt(_, _, _)
\* the little-endian integer in the w bytes of data after offset off
readUInt(data, off, w) ==
  IF w = 0 THEN 0 ELSE data[off + 1] + 256 * readUInt(data, off + 1, w - 1)

writeVarint(n) ==
  IF n < 253 THEN <<n>>
  ELSE IF n <= 65535 THEN <<253>> \o writeUInt(n, 2)
  ELSE IF n \div 65536 <= 65535 THEN <<254>> \o writeUInt(n, 4)
  ELSE <<255>> \o writeUInt(n, 8)

sizeVarBytes(data) == sizeVarint(Len(data)) + Len(data)

writeVarBytes(data) == writeVarint(Len(data)) \o data

\* A reader is [data, offset].  readVarint throws on a read past the end
\* and on a value not in its smallest encoding.
readVarint(br) ==
  LET data == br.data
      off == br.offset
      w == IF off >= Len(data) THEN 0
           ELSE IF data[off + 1] = 255 THEN 8
           ELSE IF data[off + 1] = 254 THEN 4
           ELSE IF data[off + 1] = 253 THEN 2
           ELSE 0
  IN  IF off + 1 + w > Len(data)
        THEN [threw |-> TRUE, value |-> "Out of bounds read", br |-> br]
      ELSE LET v == IF w = 0 THEN data[off + 1] ELSE readUInt(data, off + 1, w)
           IN  IF w # 0 /\ sizeVarint(v) # 1 + w
                 THEN [threw |-> TRUE, value |-> "Non-canonical varint", br |-> br]
               ELSE [threw |-> FALSE, value |-> v,
                     br |-> [br EXCEPT !.offset = off + 1 + w]]

readBytes(br, size) ==
  IF br.offset + size > Len(br.data)
    THEN [threw |-> TRUE, value |-> "Out of bounds read", br |-> br]
  ELSE [threw |-> FALSE,
        value |-> SubSeq(br.data, br.offset + 1, br.offset + size),
        br |-> [br EXCEPT !.offset = br.offset + size]]

-----------------------------------------------------------------------------
(* blake2b.digest and Buffer.toString('hex')                               *)
(* The digest is modelled by a two-byte position-weighted checksum: a      *)
(* fixed-size function of the bytes alone.                                 *)

DIGEST_MOD == 65521

RECURSIVE weigh(_, _, _)
\* sum of i * (data[i] + 1) for i in lo..hi, by halving
weigh(data, lo, hi) ==
  IF lo > hi THEN 0
  ELSE IF lo = hi THEN (lo * (data[lo] + 1)) % DIGEST_MOD
  ELSE LET mid == (lo + hi) \div 2
       IN  (weigh(data, lo, mid) + weigh(data, mid + 1, hi)) % DIGEST_MOD

digest(data) ==
  LET s == (weigh(data, 1, Len(data)) + 1) % DIGEST_MOD
  IN  <<s \div 256, s % 256>>

HexChars ==
  <<"0", "1", "2", "3", "4", "5", "6", "7", "8", "9", "a", "b", "c", "d", "e", "f">>

RECURSIVE toHex(_)
toHex(bytes) ==
  IF bytes = <<>> THEN <<>>
  ELSE <<HexChars[(bytes[1] \div 16) + 1], HexChars[(bytes[1] % 16) + 1]>>
         \o toHex(Tail(bytes))

-----------------------------------------------------------------------------
(* The proof codec (covenants/ownership): OwnershipProof.decode / encode / *)
(* getData.  A proof names the network its claim record is written for,    *)
(* the name, the destination address, the value, the fee and the flags; it *)
(* is encoded as a magic byte followed by those fields.                    *)

PROOF_MAGIC == 80
PROOF_SIZE == 10

EmptyProof == [empty |-> TRUE]

encodeProof(p) ==
  <<PROOF_MAGIC, p.net, p.name, p.version, p.hash,
    (IF p.weak THEN 1 ELSE 0) + (IF p.forked THEN 2 ELSE 0)>>
    \o writeUInt(p.value, 2) \o writeUInt(p.fee, 2)

canDecodeProof(data) ==
  /\ Len(data) = PROOF_SIZE
  /\ data[1] = PROOF_MAGIC
  /\ data[6] <= 3

decodeProof(data) ==
  [net |-> data[2], name |-> data[3], version |-> data[4], hash |-> data[5],
   weak |-> data[6] % 2 = 1, forked |-> (data[6] \div 2) % 2 = 1,
   value |-> readUInt(data, 6, 2), fee |-> readUInt(data, 8, 2)]

\* proof.getData(network): null for the empty proof and for a proof whose
\* claim record is written for another network
proofGetData(p, network) ==
  IF "empty" \in DOMAIN p THEN null
  ELSE IF p.net # network THEN null
  ELSE [nameHash |-> digest(<<p.name>>), nameRaw |-> <<p.name>>,
        version |-> p.version, hash |-> <<p.hash>>,
        value |-> p.value, fee |-> p.fee,
        weak |-> p.weak, forked |-> p.forked]

-----------------------------------------------------------------------------
(* Collaborators: fee policy, inventory items, transactions                *)

WITNESS_SCALE_FACTOR == 4

\* the fee policy's formulas are not part of the Claim: an application of
\* one is kept as the term it is
policyGetMinFee(size, rate) == [fn |-> "policy.getMinFee", size |-> size, rate |-> rate]
policyGetRate(size, fee) == [fn |-> "policy.getRate", size |-> size, fee |-> fee]

InvItem(type, hash) == [type |-> type, hash |-> hash]

NewInput == [witness |-> [items |-> <<>>]]

NewOutput ==
  [value |-> 0,
   address |-> [version |-> 0, hash |-> <<>>],
   covenant |-> [type |-> "NONE", items |-> <<>>]]

NewTX == [inputs |-> <<>>, outputs |-> <<>>]

-----------------------------------------------------------------------------
(* class Claim                                                             *)

\* constructor()
NewClaim == [blob |-> EMPTY, _hash |-> null, _hhash |-> null, _data |-> null]

\* refresh resetting the blob with the caches
refresh_ResetsBlob(self) ==
  LET s == [self EXCEPT !.blob = EMPTY,
                        !._hash = null, !._hhash = null, !._data = null]
  IN  Return(s, s)

refresh(self) ==
  LET s == [self EXCEPT !._hash = null, !._hhash = null, !._data = null]
  IN  Return(s, s)

\* hash keeping the digest in _hash
hash_StoresDigest(self, enc) ==
  LET h == IF self._hash = null THEN digest(self.blob) ELSE self._hash
      s == [self EXCEPT !._hash = h]
  IN  IF enc = "hex"
        THEN LET hex == IF self._hhash = null THEN toHex(h) ELSE self._hhash
             IN  Return(hex, [s EXCEPT !._hhash = hex])
      ELSE Return(h, s)

\* hash(enc): enc is "hex" or "undefined" (no argument)
hash(self, enc) ==
  LET h == IF self._hash = null THEN digest(self.blob) ELSE self._hash
  IN  IF enc = "hex"
        THEN LET hex == IF self._hhash = null THEN toHex(h) ELSE self._hhash
             IN  Return(hex, [self EXCEPT !._hhash = hex])
      ELSE Return(h, self)

toProof(self) ==
  IF canDecodeProof(self.blob)
    THEN Return(decodeProof(self.blob), self)
  ELSE Throw("ProofDecodeError", self)

\* getProof without its try/catch
getProof_Propagates(self) == toProof(self)

getProof(self) ==
  LET r == toProof(self)
  IN  IF r.threw THEN Return(EmptyProof, self) ELSE r

getData(self, network) ==
  IF self._data = null
    THEN LET proof == getProof(self)
         IN  IF proof.threw THEN proof
             ELSE IF proof.value = null THEN Return(null, self)
             ELSE LET data == proofGetData(proof.value, network)
                  IN  IF data = null THEN Return(null, self)
                      ELSE Return(data, [self EXCEPT !._data = data])
  ELSE Return(self._data, self)

getNameHash(self, network) ==
  LET d == getData(self, network)
  IN  IF d.threw THEN d
      ELSE IF d.value = null THEN Return(null, d.self)
      ELSE Return(d.value.nameHash, d.self)

\* getSize counting a length prefix of one byte
getSize_OneBytePrefix(self) == Return(1 + Len(self.blob), self)

getSize(self) == Return(sizeVarBytes(self.blob), self)

\* write(bw): bw is the bytes written to the writer so far
write(self, bw) == Return(bw \o writeVarBytes(self.blob), self)

\* encode() of bufio's Struct: write() to a new writer, the bytes returned
encode(self) == Return(write(self, <<>>).value, self)

\* the limit of read() off by one
MAX_CLAIM_SIZE_OffByOne == 10000 - 1

\* read() without its size check
read_NoLimit(self, br) ==
  LET size == readVarint(br)
  IN  IF size.threw
        THEN [threw |-> TRUE, value |-> size.value, self |-> self, br |-> size.br]
      ELSE LET bytes == readBytes(size.br, size.value)
           IN  IF bytes.threw
                 THEN [threw |-> TRUE, value |-> bytes.value, self |-> self,
                       br |-> bytes.br]
               ELSE [threw |-> FALSE, value |-> [self EXCEPT !.blob = bytes.value],
                     self |-> [self EXCEPT !.blob = bytes.value], br |-> bytes.br]

MAX_CLAIM_SIZE == 10000

\* read(br): the outcome also carries the reader as the call leaves it
read(self, br) ==
  LET size == readVarint(br)
  IN  IF size.threw
        THEN [threw |-> TRUE, value |-> size.value, self |-> self, br |-> size.br]
      ELSE IF size.value > MAX_CLAIM_SIZE
        THEN [threw |-> TRUE, value |-> "Invalid claim size.", self |-> self,
              br |-> size.br]
      ELSE LET bytes == readBytes(size.br, size.value)
           IN  IF bytes.threw
                 THEN [threw |-> TRUE, value |-> bytes.value, self |-> self,
                       br |-> bytes.br]
               ELSE [threw |-> FALSE, value |-> [self EXCEPT !.blob = bytes.value],
                     self |-> [self EXCEPT !.blob = bytes.value], br |-> bytes.br]

toInv(self) ==
  LET h == hash(self, "hex")
  IN  Return(InvItem("CLAIM", h.value), h.self)

getWeight(self) == getSize(self)

\* getVirtualSize rounding down
getVirtualSize_Floor(self) ==
  LET scale == WITNESS_SCALE_FACTOR
  IN  Return(getWeight(self).value \div scale, self)

getVirtualSize(self) ==
  LET scale == WITNESS_SCALE_FACTOR
  IN  Return((getWeight(self).value + scale - 1) \div scale, self)

\* an optional number is null or <<n>>
getMinFee(self, size, rate) ==
  LET sz == IF size = null THEN getVirtualSize(self).value ELSE size[1]
  IN  Return(policyGetMinFee(sz, rate), self)

\* getFee answering 0 where it should assert
getFee_NoAssert(self, network) ==
  LET d == getData(self, network)
  IN  IF d.threw THEN d
      ELSE IF d.value = null THEN Return(0, d.self)
      ELSE Return(d.value.fee, d.self)

getFee(self, network) ==
  LET d == getData(self, network)
  IN  IF d.threw THEN d
      ELSE IF d.value = null THEN Throw("AssertionError", d.self)
      ELSE Return(d.value.fee, d.self)

getRate(self, size, network) ==
  LET fee == getFee(self, network)
  IN  IF fee.threw THEN fee
      ELSE LET sz == IF size = null THEN getVirtualSize(fee.self).value ELSE size[1]
           IN  Return(policyGetRate(sz, fee.value), fee.self)

\* the input left without the blob
claimInput_NoBlob(self) == NewInput

\* toTX: the input that carries the blob
claimInput(self) == [NewInput EXCEPT !.witness.items = @ \o <<self.blob>>]

\* the value with the forked flag forgotten
claimValue_IgnoresForked(data) == data.value - data.fee

\* toTX: the value of the output
claimValue(data) == IF data.forked THEN 0 ELSE data.value - data.fee

\* the status byte with its two bits exchanged
claimFlags_Swapped(data) == (IF data.weak THEN 2 ELSE 0) + (IF data.forked THEN 1 ELSE 0)

\* toTX: the status byte of the covenant
claimFlags(data) == (IF data.weak THEN 1 ELSE 0) + (IF data.forked THEN 2 ELSE 0)

\* the output with its value kept from going below 0
claimOutput_ValueClamped(data) ==
  [NewOutput EXCEPT
     !.value = IF claimValue(data) < 0 THEN 0 ELSE claimValue(data),
     !.address.version = data.version,
     !.address.hash = data.hash,
     !.covenant.type = "CLAIM",
     !.covenant.items = @ \o <<data.nameHash, data.nameRaw, <<claimFlags(data)>>>>]

\* toTX: the output that carries the covenant
claimOutput(data) ==
  [NewOutput EXCEPT
     !.value = claimValue(data),
     !.address.version = data.version,
     !.address.hash = data.hash,
     !.covenant.type = "CLAIM",
     !.covenant.items = @ \o <<data.nameHash, data.nameRaw, <<claimFlags(data)>>>>]

toTX(self, network) ==
  LET d == getData(self, network)
  IN  IF d.threw THEN d
      ELSE IF d.value = null THEN Throw("AssertionError", d.self)
      ELSE
        LET tx == [NewTX EXCEPT
                     !.inputs = @ \o <<NewInput, claimInput(self)>>,
                     !.outputs = @ \o <<NewOutput, claimOutput(d.value)>>]
        IN  Return(tx, d.self)

toBlob(self) == Return(self.blob, self)

fromBlob(self, blob) ==
  LET s == [self EXCEPT !.blob = blob]
  IN  Return(s, s)

fromProof(self, proof) ==
  LET s == [self EXCEPT !.blob = encodeProof(proof)]
  IN  Return(s, s)

-----------------------------------------------------------------------------
(* Inputs                                                                  *)

Proof(net, weak, forked) ==
  [net |-> net, name |-> 7, version |-> 0, hash |-> 9,
   value |-> 1000, fee |-> 100, weak |-> weak, forked |-> forked]

\* a proof without flags whose fee is above its value
Overpriced(net) == [Proof(net, FALSE, FALSE) EXCEPT !.value = 100, !.fee = 1000]

\* the proofs given to fromProof: every combination of the flags for
\* network 0, and for every other network a proof without flags, with the
\* fee above the value
Proofs ==
  {Proof(0, w, f) : w \in BOOLEAN, f \in BOOLEAN}
    \cup {Overpriced(n) : n \in Networks \ {0}}

\* a proof's encoding with its first byte damaged
Corrupt == [encodeProof(Proof(0, FALSE, FALSE)) EXCEPT ![1] = 0]

\* the buffers given to fromBlob
Blobs == {EMPTY, Corrupt} \cup {encodeProof(p) : p \in Proofs}

\* buffers received for read(): a length prefix of 10001, one of 10000 with
\* too few bytes behind it, a prefix not in its smallest form, nothing at
\* all, and a one-byte blob with bytes of the next record behind it
RecvWires ==
  {<<253, 17, 39, 1, 2>>, <<253, 16, 39, 1, 2>>, <<253, 1, 0, 5>>, <<>>,
   <<1, 255, 170>>}

\* the optional size given to getMinFee and getRate
Sizes == {null, <<250>>}

Rates == {1000}

\* the blobs of the codec round trip: every length around the limits of the
\* length prefix and of read(), filled with a pattern
CodecLens == {0, 1, 2, 7, 9, 252, 253, 254, 255, 256, 9999, 10000, 10001}

Pattern(len, fill) == [i \in 1..len |-> (i * fill + len) % 256]

CodecBlobs == {Pattern(len, fill) : len \in CodecLens, fill \in 0..MaxFill}

-----------------------------------------------------------------------------
(* Actions: one per method, applied to the object in claim                 *)

\* the object and the record of the call after a call that came to r
Call(op, args, r) ==
  /\ claim' = r.self
  /\ ret' = Called(op, args, r.threw, r.value)

New ==
  /\ claim' = NewClaim
  /\ ret' = Called("new", <<>>, FALSE, NewClaim)
  /\ UNCHANGED <<wire, src>>

Refresh ==
  /\ Call("refresh", <<>>, refresh(claim))
  /\ UNCHANGED <<wire, src>>

Hash ==
  /\ \E enc \in {"hex", "undefined"} : Call("hash", <<enc>>, hash(claim, enc))
  /\ UNCHANGED <<wire, src>>

GetData ==
  /\ \E network \in Networks : Call("getData", <<network>>, getData(claim, network))
  /\ UNCHANGED <<wire, src>>

GetNameHash ==
  /\ \E network \in Networks :
       Call("getNameHash", <<network>>, getNameHash(claim, network))
  /\ UNCHANGED <<wire, src>>

GetSize ==
  /\ Call("getSize", <<>>, getSize(claim))
  /\ UNCHANGED <<wire, src>>

\* write(bw) on a fresh writer; the bytes written are the buffer in wire
Write ==
  /\ Call("write", <<>>, write(claim, <<>>))
  /\ wire' = write(claim, <<>>).value
  /\ UNCHANGED src

\* read(br) on a reader at the start of a buffer: the one last written, or
\* one received from a peer
Read ==
  \E data \in RecvWires \cup {wire} :
    LET r == read(claim, [data |-> data, offset |-> 0])
    IN  /\ claim' = r.self
        /\ ret' = [op |-> "read", args |-> <<data>>, threw |-> r.threw,
                   value |-> r.value, offset |-> r.br.offset]
        /\ UNCHANGED <<wire, src>>

ToInv ==
  /\ Call("toInv", <<>>, toInv(claim))
  /\ UNCHANGED <<wire, src>>

GetWeight ==
  /\ Call("getWeight", <<>>, getWeight(claim))
  /\ UNCHANGED <<wire, src>>

GetVirtualSize ==
  /\ Call("getVirtualSize", <<>>, getVirtualSize(claim))
  /\ UNCHANGED <<wire, src>>

GetMinFee ==
  /\ \E size \in Sizes, rate \in Rates :
       Call("getMinFee", <<size, rate>>, getMinFee(claim, size, rate))
  /\ UNCHANGED <<wire, src>>

GetFee ==
  /\ \E network \in Networks : Call("getFee", <<network>>, getFee(claim, network))
  /\ UNCHANGED <<wire, src>>

GetRate ==
  /\ \E size \in Sizes, network \in Networks :
       Call("getRate", <<size, network>>, getRate(claim, size, network))
  /\ UNCHANGED <<wire, src>>

ToTX ==
  /\ \E network \in Networks : Call("toTX", <<network>>, toTX(claim, network))
  /\ UNCHANGED <<wire, src>>

GetProof ==
  /\ Call("getProof", <<>>, getProof(claim))
  /\ UNCHANGED <<wire, src>>

ToProof ==
  /\ Call("toProof", <<>>, toProof(claim))
  /\ UNCHANGED <<wire, src>>

ToBlob ==
  /\ Call("toBlob", <<>>, toBlob(claim))
  /\ UNCHANGED <<wire, src>>

FromBlob ==
  /\ \E blob \in Blobs : Call("fromBlob", <<blob>>, fromBlob(claim, blob))
  /\ UNCHANGED <<wire, src>>

FromProof ==
  /\ \E proof \in Proofs : Call("fromProof", <<proof>>, fromProof(claim, proof))
  /\ UNCHANGED <<wire, src>>

\* static fromBlob(blob): new this().fromBlob(blob)
StaticFromBlob ==
  /\ \E blob \in Blobs : Call("Claim.fromBlob", <<blob>>, fromBlob(NewClaim, blob))
  /\ UNCHANGED <<wire, src>>

\* static fromProof(proof): new this().fromProof(proof)
StaticFromProof ==
  /\ \E proof \in Proofs :
       Call("Claim.fromProof", <<proof>>, fromProof(NewClaim, proof))
  /\ UNCHANGED <<wire, src>>

-----------------------------------------------------------------------------
(* The Claim as an object: every method, in any order                      *)

Init ==
  /\ claim = NewClaim
  /\ wire = <<>>
  /\ src = EMPTY
  /\ ret = Called("new", <<>>, FALSE, NewClaim)

Next ==
  \/ New \/ Refresh \/ Hash \/ GetData \/ GetNameHash \/ GetSize
  \/ Write \/ Read \/ ToInv \/ GetWeight \/ GetVirtualSize
  \/ GetMinFee \/ GetFee \/ GetRate \/ ToTX \/ GetProof \/ ToProof \/ ToBlob
  \/ FromBlob \/ FromProof \/ StaticFromBlob \/ StaticFromProof

Spec == Init /\ [][Next]_vars

-----------------------------------------------------------------------------
(* The codec round trip: a sending Claim made from each blob of CodecBlobs is   *)
(* encoded, and a receiving Claim (the object in claim) reads the bytes    *)

\* encode() on the sender, Claim.fromBlob(src)
Encode ==
  LET r == encode(fromBlob(NewClaim, src).self)
  IN  /\ wire' = r.value
      /\ ret' = Called("encode", <<>>, r.threw, r.value)
      /\ UNCHANGED <<claim, src>>

InitCodec ==
  /\ src \in CodecBlobs
  /\ claim = NewClaim
  /\ wire = <<>>
  /\ ret = Called("new", <<>>, FALSE, NewClaim)

NextCodec ==
  \/ Encode \/ Read \/ Hash \/ GetSize \/ GetWeight \/ GetVirtualSize

SpecCodec == InitCodec /\ [][NextCodec]_vars

-----------------------------------------------------------------------------
(* Properties                                                              *)

\* what proof.getData gives for the blob now held, computed without the caches
FreshData(network) ==
  IF canDecodeProof(claim.blob)
    THEN proofGetData(decodeProof(claim.blob), network)
  ELSE null

\* the last output of the transaction a call of toTX returned
FinalOutput == ret.value.outputs[Len(ret.value.outputs)]

ToTXReturned == ret.op = "toTX" /\ ~ret.threw

\* C1: in every reachable state hash('hex') is the hex encoding of what
\* hash() returns for the blob now held, and toInv() is keyed by the digest
\* of the blob now held.
C1_HexIsHexOfIdentity ==
  /\ hash(claim, "hex").value = toHex(hash(claim, "undefined").value)
  /\ toInv(claim).value.hash = toHex(digest(claim.blob))

\* C2: every operation that reassigns blob (fromBlob, fromProof, read)
\* leaves the three caches empty.
C2_ReassignClearsCaches ==
  (ret.op \in {"fromBlob", "fromProof", "read"} /\ ~ret.threw)
    => /\ claim._hash = null
       /\ claim._hhash = null
       /\ claim._data = null

\* C3: reading the bytes encode() produced for a blob of at most 10000
\* bytes succeeds, leaves exactly that blob in the reading Claim, and
\* consumes exactly the bytes encoded.
C3_RoundTrip ==
  (ret.op = "read" /\ wire # <<>> /\ ret.args[1] = wire /\ Len(src) <= 10000)
    => /\ ~ret.threw
       /\ claim.blob = src
       /\ ret.offset = Len(wire)

C3_Witness ==
  /\ ret.op = "read" /\ wire # <<>> /\ ret.args[1] = wire
  /\ Len(src) = 10000
  /\ claim.blob = src
  /\ ret.offset = 10003

\* C4: read() fails with "Invalid claim size." exactly when the length
\* prefix is above 10000; the reader is then left just behind the prefix and
\* the Claim is as it was.  A prefix of at most 10000 with its bytes present
\* is accepted.
C4_OversizeRejected ==
  [][ret'.op = "read" =>
       LET data == ret'.args[1]
           size == readVarint([data |-> data, offset |-> 0])
       IN  /\ (~size.threw /\ size.value > 10000)
                => /\ ret'.threw
                   /\ ret'.value = "Invalid claim size."
                   /\ ret'.offset = size.br.offset
                   /\ claim' = claim
           /\ (~size.threw /\ size.value <= 10000)
                => IF size.br.offset + size.value <= Len(data)
                     THEN ~ret'.threw /\ Len(claim'.blob) = size.value
                   ELSE ret'.threw /\ ret'.value = "Out of bounds read"
     ]_vars

C4_Witness ==
  /\ ret.op = "read" /\ ret.threw
  /\ ret.value = "Invalid claim size."
  /\ ret.args[1] = <<253, 17, 39, 1, 2>>
  /\ ret.offset = 3
  /\ claim.blob # EMPTY /\ claim._hhash # null /\ claim._data # null

\* C5: toTX returns a transaction whenever getData gives data, and the
\* transaction has two inputs and two outputs: an empty input and a
\* zero-value output without destination or covenant items first, then the
\* input whose witness is the blob alone.
C5_TxShape ==
  /\ (ret.op = "toTX" /\ getData(claim, ret.args[1]).value # null) => ~ret.threw
  /\ ToTXReturned =>
       LET tx == ret.value
       IN  /\ Len(tx.inputs) = 2
           /\ Len(tx.outputs) = 2
           /\ tx.inputs[1].witness.items = <<>>
           /\ tx.outputs[1].value = 0
           /\ tx.outputs[1].address.hash = <<>>
           /\ tx.outputs[1].covenant.items = <<>>
           /\ tx.inputs[2].witness.items = <<claim.blob>>

C5_Witness ==
  /\ ToTXReturned
  /\ claim.blob = encodeProof(Proof(0, TRUE, FALSE))
  /\ ret.value.inputs[2].witness.items = <<claim.blob>>

\* C6: the final output's value is 0 when the data's forked flag is set and
\* value - fee when it is not.
C6_OutputValue ==
  ToTXReturned =>
    LET data == getData(claim, ret.args[1]).value
    IN  FinalOutput.value = IF data.forked THEN 0 ELSE data.value - data.fee

C6_Witness ==
  /\ ToTXReturned
  /\ ~claim._data.forked
  /\ claim._data.value = 1000 /\ claim._data.fee = 100
  /\ FinalOutput.value = 900

\* C7: the final output's covenant is of type CLAIM with the items nameHash,
\* nameRaw and one status byte (bit 0 weak, bit 1 forked, no other bit), and
\* its address is the data's version and hash.
C7_Covenant ==
  ToTXReturned =>
    LET data == getData(claim, ret.args[1]).value
        out == FinalOutput
        items == out.covenant.items
    IN  /\ out.covenant.type = "CLAIM"
        /\ Len(items) = 3
        /\ items[1] = data.nameHash
        /\ items[2] = data.nameRaw
        /\ Len(items[3]) = 1
        /\ (items[3][1] % 2 = 1) <=> data.weak
        /\ ((items[3][1] \div 2) % 2 = 1) <=> data.forked
        /\ items[3][1] \div 4 = 0
        /\ out.address = [version |-> data.version, hash |-> data.hash]

C7_Witness ==
  /\ ToTXReturned
  /\ claim._data.weak /\ claim._data.forked
  /\ FinalOutput.covenant.items[3] = <<3>>

\* C8: when getData gives nothing, getFee, getRate and toTX end in an
\* assertion failure and leave the Claim as it was.
C8_AssertsOnAbsentData ==
  [][(/\ ret'.op \in {"getFee", "getRate", "toTX"}
      /\ getData(claim, ret'.args[Len(ret'.args)]).value = null)
       => /\ ret'.threw
          /\ ret'.value = "AssertionError"
          /\ claim' = claim
     ]_vars

C8_Witness ==
  /\ ret.op = "getRate" /\ ret.threw
  /\ ret.value = "AssertionError"
  /\ claim.blob = Corrupt
  /\ claim._hhash # null

\* C9: getData and getNameHash never throw; they return null when the blob
\* does not decode as a proof or the proof gives no data for the network;
\* and a null result is not stored in the data cache.
C9_AbsentWhenNoData ==
  ret.op \in {"getData", "getNameHash"}
    => /\ ~ret.threw
       /\ FreshData(ret.args[1]) = null => ret.value = null
       /\ ret.value = null => claim._data = null

\* C10: on a blob the proof codec does not decode, getProof returns the
\* empty proof without throwing and toProof throws the decode error; on a
\* blob it decodes, both return the decoded proof.
C10_LenientAndStrict ==
  /\ ret.op = "getProof" =>
       /\ ~ret.threw
       /\ ret.value = IF canDecodeProof(claim.blob)
                        THEN decodeProof(claim.blob)
                      ELSE EmptyProof
  /\ ret.op = "toProof" =>
       IF canDecodeProof(claim.blob)
         THEN ~ret.threw /\ ret.value = decodeProof(claim.blob)
       ELSE ret.threw /\ ret.value = "ProofDecodeError"

C10_Witness ==
  /\ ret.op = "getProof" /\ ~ret.threw
  /\ claim.blob = Corrupt
  /\ ret.value = EmptyProof

\* C11: hash() without an encoding returns the digest of the blob now held,
\* in every reachable state: whatever blob was held before and whatever the
\* hex and data caches hold.
C11_IdentityOfCurrentBlob ==
  /\ hash(claim, "undefined").value = digest(claim.blob)
  /\ (ret.op = "hash" /\ ret.args = <<"undefined">>) => ret.value = digest(claim.blob)

C11_Witness ==
  /\ ret.op = "hash" /\ ret.args = <<"undefined">>
  /\ ret.value = digest(claim.blob)
  /\ claim._hhash # null /\ claim._hhash # toHex(digest(claim.blob))
  /\ claim._data # null /\ claim._data # FreshData(0)

\* C12: getWeight() returns what getSize() returns, and getVirtualSize()
\* returns the least integer v with v * WITNESS_SCALE_FACTOR >= weight: the
\* weight divided by the scale factor, rounded up.
C12_VirtualSizeIsCeiling ==
  /\ ret.op = "getWeight" => ret.value = getSize(claim).value
  /\ ret.op = "getVirtualSize" =>
       LET w == getWeight(claim).value
       IN  /\ ret.value * WITNESS_SCALE_FACTOR >= w
           /\ (ret.value - 1) * WITNESS_SCALE_FACTOR < w
           /\ w = 10 => ret.value = 3
           /\ w = 8 => ret.value = 2
           /\ w = 1 => ret.value = 1

\* a weight of 10, not a multiple of the scale factor, gives 3
C12_Witness ==
  /\ ret.op = "getVirtualSize"
  /\ getWeight(claim).value = 10
  /\ ret.value = 3

\* C13: getSize() is the number of bytes write() emits for the blob held:
\* the blob's length plus 1 below 253 bytes, plus 3 from 253 to 10000 bytes.
C13_SizeIsEncodedLength ==
  LET len == Len(claim.blob)
  IN  /\ ret.op = "getSize" =>
           /\ ret.value = Len(write(claim, <<>>).value)
           /\ len < 253 => ret.value = 1 + len
           /\ (253 <= len /\ len <= MAX_CLAIM_SIZE) => ret.value = 3 + len
      /\ ret.op = "encode" =>
           Len(ret.value) = getSize(fromBlob(NewClaim, src).self).value

\* the first length that takes a three-byte prefix
C13_Witness ==
  /\ ret.op = "getSize"
  /\ Len(claim.blob) = 253
  /\ ret.value = 256
  /\ Len(write(claim, <<>>).value) = 256

\* the calls that give the Claim a blob: the constructor, fromBlob, fromProof
\* and read, the static forms included
Assigning ==
  {"new", "fromBlob", "fromProof", "read", "Claim.fromBlob", "Claim.fromProof"}

Caches == {"_hash", "_hhash", "_data"}

\* C14: a call of any method other than fromBlob, fromProof and read leaves
\* the blob as it was, and so does a read that fails; refresh changes nothing
\* but the caches, which it clears, and every other such method changes
\* nothing but caches that were empty, which it may fill.
C14_BlobFrame ==
  [][/\ ret'.op \notin Assigning => claim'.blob = claim.blob
     /\ (ret'.op = "read" /\ ret'.threw) => claim'.blob = claim.blob
     /\ ret'.op = "refresh" =>
          claim' = [blob |-> claim.blob,
                    _hash |-> null, _hhash |-> null, _data |-> null]
     /\ ret'.op \notin Assigning \cup {"refresh"} =>
          \A c \in Caches : claim'[c] = claim[c] \/ claim[c] = null]_vars

\* getNameHash has filled the data cache of a Claim that holds a proof
C14_Witness ==
  /\ ret.op = "getNameHash" /\ ~ret.threw /\ ret.value # null
  /\ claim.blob # EMPTY
  /\ claim._data # null /\ claim._data.nameHash = ret.value
  /\ claim._hhash = null

\* C15: a call with a network uses the data the proof held yields for that
\* network, also when the data cache was filled, from the blob now held, by a
\* call with another network: getData and getNameHash return that data or
\* its name hash, and getFee, getRate and toTX fail when there is none.
C15_DataOfNetworkPassed ==
  (/\ ret.op \in {"getData", "getNameHash", "getFee", "getRate", "toTX"}
   /\ claim._data # null
   /\ \E n \in Networks : claim._data = FreshData(n))
    => LET network == ret.args[Len(ret.args)]
           data == FreshData(network)
       IN  CASE ret.op = "getData" -> ret.value = data
             [] ret.op = "getNameHash" ->
                  ret.value = IF data = null THEN null ELSE data.nameHash
             [] OTHER -> data = null => ret.threw

\* C16: once hash() without an encoding has returned, the digest it returned
\* is held in the _hash cache.
C16_DigestCached ==
  (ret.op = "hash" /\ ret.args = <<"undefined">>) => claim._hash = ret.value

\* C17 as stated: the final output of every transaction toTX returns has a
\* value of at least 0.
C17_ValueNonNegative ==
  ToTXReturned => FinalOutput.value >= 0

\* C17 amended: the final output's value is at least 0 exactly when the data
\* is forked or its fee is at most its value; for data that is not forked
\* and has a fee above its value it is the negative number value - fee.
C17_NonNegativeIffCovered ==
  ToTXReturned =>
    LET data == claim._data
    IN  /\ (FinalOutput.value >= 0) <=> (data.forked \/ data.fee <= data.value)
        /\ (~data.forked /\ data.fee > data.value)
             => /\ FinalOutput.value < 0
                /\ FinalOutput.value + data.fee = data.value

\* toTX has returned a transaction for data with a fee above its value
C17_Witness ==
  /\ ToTXReturned
  /\ ~claim._data.forked
  /\ claim._data.value = 100 /\ claim._data.fee = 1000
  /\ FinalOutput.value = 0 - 900

====
